---- MODULE Spec2Model ----
(***************************************************************************)
(* Model of the graph layout engine of menteora/roadmaps                   *)
(* (utils/layoutHelper.ts: calculateLayout) as a state machine.  The input *)
(* list, the orientation and the loop state of the function are the        *)
(* variables, and every phase of the function body is an action.  Spec is  *)
(* one call on an arbitrary list; SpecTwice calls the function a second    *)
(* time on the same arguments; ViewSpec is one render of the graph view    *)
(* (components/GraphCanvas.tsx): the visibility filter, the call, and the  *)
(* path of every edge (getPath); StoreSpec is the workflow store           *)
(* (context/WorkflowContext.tsx): sheets, nodes and the import.            *)
(*                                                                         *)
(* Node ids are opaque strings in the source and are only compared for     *)
(* equality; they are modelled as small naturals.  Dates are compared      *)
(* through getTime(), a number; they are modelled as naturals.             *)
(***************************************************************************)
EXTENDS Integers, Sequences, FiniteSets, TLC

VARIABLES
    nodes,            \* the argument `nodes`: a sequence of WorkflowNode
    orientation,      \* the argument `orientation`
    pc,               \* position in the body of calculateLayout
    sortedNodes,      \* const sortedNodes
    ranks,            \* const ranks = new Map<string, number>()
    changed,          \* let changed
    iterations,       \* let iterations
    layoutNodes,      \* const layoutNodes
    cursor,           \* index of the next element of layoutNodes.forEach
    nodeMap,          \* const nodeMap = new Map<string, RenderedNode>()
    laneAllocation,   \* const laneAllocation: lane index -> node id
    result,           \* the returned object, or NoResult before the return
    window,           \* window.innerWidth, window.innerHeight as read at the return
    previous,         \* what the preceding call read and returned, or NoCall
    sheetNodes,       \* the view: the `nodes` of the workflow context
    collapsedNodeIds, \* the view: the collapsed ids (only tested with includes)
    paths,            \* the view: the path drawn for each returned edge
    sheets,           \* the store: const [sheets, setSheets]
    activeSheetId,    \* the store: const [activeSheetId, setActiveSheetId]
    uuids             \* the store: how many values uuidv4() has returned

\* the variables of the body of calculateLayout
locals == <<sortedNodes, ranks, changed, iterations, layoutNodes, cursor, nodeMap,
            laneAllocation>>

\* the variables of the graph view outside the call
view == <<sheetNodes, collapsedNodeIds, paths>>

\* the variables of the workflow store (collapsedNodeIds is its fourth)
store == <<sheets, activeSheetId, uuids>>

vars == <<nodes, orientation, pc, sortedNodes, ranks, changed, iterations,
          layoutNodes, cursor, nodeMap, laneAllocation, result, window, previous,
          sheetNodes, collapsedNodeIds, paths, sheets, activeSheetId, uuids>>

----------------------------------------------------------------------------
(* Bounds of the explored inputs *)

MaxSize == 6
MaxDiamondDate == 4
MaxFan == 8
MaxViewSize == 5
MaxStoreSize == 5
MaxUuids == 1

----------------------------------------------------------------------------
(* Program constants, constants.ts *)

COLORS == <<"#3b82f6", "#10b981", "#8b5cf6", "#f59e0b", "#ec4899", "#06b6d4", "#f43f5e">>
NODE_WIDTH == 180
NODE_HEIGHT == 80
GAP_X == 50
GAP_Y == 120
H_NODE_WIDTH == 200
H_NODE_HEIGHT == 100
H_GAP_X == 250
H_GAP_Y == 80

NodeStatus == {"active", "completed", "abandoned", "standby"}
LayoutOrientation == {"vertical", "horizontal"}

NoResult == [returned |-> FALSE]

\* the window size has not been read
NotRead == [read |-> FALSE]

\* there has been no call before this one
NoCall == [called |-> FALSE]

----------------------------------------------------------------------------
(* Generic helpers: JS Map and Array.prototype.sort *)

Max2(a, b) == IF a > b THEN a ELSE b

\* Math.max(...) of a non-empty list
SetMax(S) == CHOOSE x \in S : \A y \in S : y <= x

\* the value of an expression, computed once: TheOne({e(x) : x \in {v}})
TheOne(S) == CHOOSE x \in S : TRUE

\* Map.set on a map whose iteration order is irrelevant (ranks, laneAllocation)
Put(m, k, v) == [x \in (DOMAIN m) \cup {k} |-> IF x = k THEN v ELSE m[x]]

EmptyMap == [x \in {} |-> 0]

\* A Map whose iteration order is used (nodeMap) is a sequence of values in
\* insertion order, keyed by the value's id field.
MapHas(m, id) == \E i \in 1..Len(m) : m[i].id = id
MapGet(m, id) == m[CHOOSE i \in 1..Len(m) : m[i].id = id]
\* mutant: the map is keyed by the lane instead of the id
MapSet_ByLane(m, v) ==
    IF \E i \in 1..Len(m) : m[i].lane = v.lane
    THEN [i \in 1..Len(m) |-> IF m[i].lane = v.lane THEN v ELSE m[i]]
    ELSE Append(m, v)

MapSet(m, v)  == IF MapHas(m, v.id)
                 THEN [i \in 1..Len(m) |-> IF m[i].id = v.id THEN v ELSE m[i]]
                 ELSE Append(m, v)

\* Array.prototype.sort with a consistent comparator: a stable sort.
\* cmp[i][j] is the comparator applied to seq[i], seq[j].
StableSort(seq, cmp) ==
    LET n == Len(seq)
        Before(j, i) == cmp[j][i] < 0 \/ (cmp[j][i] = 0 /\ j < i)
        pos(i) == 1 + Cardinality({j \in 1..n : j # i /\ Before(j, i)})
    IN  [k \in 1..n |-> seq[CHOOSE i \in 1..n : pos(i) = k]]

----------------------------------------------------------------------------
(* calculateLayout, step 1 and the initialisation of step 2 *)

SortByDate(ns) ==
    StableSort(ns, [i \in 1..Len(ns) |-> [j \in 1..Len(ns) |-> ns[i].date - ns[j].date]])

\* mutant: a root starts at rank 1
RootNode_One(node, rk) == IF Len(node.parentIds) = 0 THEN Put(rk, node.id, 1) ELSE rk

\* one element of the sortedNodes.forEach of lines 21-25
RootNode(node, rk) == IF Len(node.parentIds) = 0 THEN Put(rk, node.id, 0) ELSE rk

RECURSIVE InitRoots(_, _, _)
InitRoots(sn, i, rk) ==
    IF i > Len(sn) THEN rk
    ELSE InitRoots(sn, i + 1, TheOne({RootNode(sn[i], x) : x \in {rk}}))

\* mutant: one more pass is allowed
maxIterations_OneMore == Len(nodes) + 3

\* mutant: the guard allows one pass fewer than there are nodes
maxIterations_NoSlack == Len(nodes) - 1

\* line 31
maxIterations == Len(nodes) + 2

----------------------------------------------------------------------------
(* calculateLayout, step 2: one pass of the rank loop *)

\* the inner parentIds.forEach: hasParentRank
hasParentRank(pids, rk) == \E j \in 1..Len(pids) : pids[j] \in DOMAIN rk

\* the inner parentIds.forEach: maxParentRank, starting from -1
maxParentRank(pids, rk) ==
    SetMax({-1} \cup {rk[pids[j]] : j \in {k \in 1..Len(pids) : pids[k] \in DOMAIN rk}})

\* mutant: a child is placed two ranks after its deepest parent
newRank_PlusTwo(pids, rk) == maxParentRank(pids, rk) + 2

\* line 50: maxParentRank + 1
newRank(pids, rk) == maxParentRank(pids, rk) + 1

\* ranks.get(node.id) ?? -1
RankOrMinus1(rk, id) == IF id \in DOMAIN rk THEN rk[id] ELSE -1

\* one element of sortedNodes.forEach in the while body; st = <<ranks, changed>>
RankNode(node, st) ==
    LET rk  == st[1]
        upd == /\ Len(node.parentIds) > 0
               /\ hasParentRank(node.parentIds, rk)
               /\ RankOrMinus1(rk, node.id) < newRank(node.parentIds, rk)
    IN  IF upd THEN <<Put(rk, node.id, newRank(node.parentIds, rk)), TRUE>> ELSE st

\* sortedNodes.forEach of the while body, from element i on; yields <<ranks, changed>>
RECURSIVE RankPassFrom(_, _, _)
RankPassFrom(sn, i, st) ==
    IF i > Len(sn) THEN st
    ELSE RankPassFrom(sn, i + 1, TheOne({RankNode(sn[i], x) : x \in {st}}))

\* mutant: a one-based position is used
FallbackRank_OneBased(index) == index + 1

\* the rank given to the element at zero-based position `index` that has no rank
FallbackRank(index) == index

\* one element of the fallback sortedNodes.forEach((node, index) => ...)
FallbackNode(node, index, rk) ==
    IF node.id \in DOMAIN rk THEN rk ELSE Put(rk, node.id, FallbackRank(index))

\* the fallback forEach, from element i on
RECURSIVE FallbackFrom(_, _, _)
FallbackFrom(sn, i, rk) ==
    IF i > Len(sn) THEN rk
    ELSE FallbackFrom(sn, i + 1, TheOne({FallbackNode(sn[i], i - 1, x) : x \in {rk}}))

----------------------------------------------------------------------------
(* calculateLayout, step 3: lanes, colours, coordinates *)

\* ranks.get(id) ?? 0
RankOr0(rk, id) == IF id \in DOMAIN rk THEN rk[id] ELSE 0

\* the comparator of the second sort
RankDateCmp(a, b, rk) ==
    IF RankOr0(rk, a.id) # RankOr0(rk, b.id)
    THEN RankOr0(rk, a.id) - RankOr0(rk, b.id)
    ELSE a.date - b.date

SortByRankDate(sn, rk) ==
    StableSort(sn, [i \in 1..Len(sn) |-> [j \in 1..Len(sn) |-> RankDateCmp(sn[i], sn[j], rk)]])

\* mutant: the parent's lane is inherited even when another node has taken it over
CanInherit_NoClaimCheck(node, nm, la) ==
    /\ Len(node.parentIds) > 0
    /\ MapHas(nm, node.parentIds[1])

\* mutant: an abandoned node never inherits its parent's lane
CanInherit_NotAbandoned(node, nm, la) ==
    /\ node.status # "abandoned"
    /\ Len(node.parentIds) > 0
    /\ MapHas(nm, node.parentIds[1])
    /\ MapGet(nm, node.parentIds[1]).lane \in DOMAIN la
    /\ la[MapGet(nm, node.parentIds[1]).lane] = node.parentIds[1]

\* the inheritance test: the first parent is already in nodeMap and
\* laneAllocation[firstParent.lane] === firstParent.id
CanInherit(node, nm, la) ==
    /\ Len(node.parentIds) > 0
    /\ MapHas(nm, node.parentIds[1])
    /\ MapGet(nm, node.parentIds[1]).lane \in DOMAIN la
    /\ la[MapGet(nm, node.parentIds[1]).lane] = node.parentIds[1]

InheritedLane(node, nm) == MapGet(nm, node.parentIds[1]).lane

\* mutant: the lane opened last is taken again instead of a new one
FirstFreeLane_LastOpened(la) == Max2(Cardinality(DOMAIN la) - 1, 0)

\* mutant: the scan starts at l = 1
FirstFreeLane_FromOne(la) ==
    CHOOSE l \in 1..(Cardinality(DOMAIN la) + 1) :
        /\ l \notin DOMAIN la
        /\ \A k \in 1..(l - 1) : k \in DOMAIN la

\* the while (true) scan from l = 0: the first index with no entry
FirstFreeLane(la) ==
    CHOOSE l \in 0..Cardinality(DOMAIN la) :
        /\ l \notin DOMAIN la
        /\ \A k \in 0..(l - 1) : k \in DOMAIN la

\* mutant: the first parent's id is recorded as the claimant
Claim_Parent(la, lane, node) ==
    Put(la, lane, IF Len(node.parentIds) > 0 THEN node.parentIds[1] ELSE node.id)

\* line 113: laneAllocation[assignedLane] = node.id
Claim(la, lane, node) == Put(la, lane, node.id)

\* mutant: the inheritance branch is skipped
AssignLane_NoInherit(node, nm, la) == FirstFreeLane(la)

\* mutant: when the first parent cannot be followed, any other listed parent
\* that still claims its lane is followed
AssignLane_AnyParent(node, nm, la) ==
    IF CanInherit(node, nm, la) THEN InheritedLane(node, nm)
    ELSE IF \E j \in 1..Len(node.parentIds) :
                /\ MapHas(nm, node.parentIds[j])
                /\ MapGet(nm, node.parentIds[j]).lane \in DOMAIN la
                /\ la[MapGet(nm, node.parentIds[j]).lane] = node.parentIds[j]
         THEN MapGet(nm, node.parentIds[
                  CHOOSE j \in 1..Len(node.parentIds) :
                      /\ MapHas(nm, node.parentIds[j])
                      /\ MapGet(nm, node.parentIds[j]).lane \in DOMAIN la
                      /\ la[MapGet(nm, node.parentIds[j]).lane] = node.parentIds[j]]).lane
         ELSE FirstFreeLane(la)

\* lines 87-110: the first parent's lane, else the first free lane
AssignLane(node, nm, la) ==
    IF CanInherit(node, nm, la) THEN InheritedLane(node, nm) ELSE FirstFreeLane(la)

\* mutant: lanes beyond the palette keep its last colour
NodeColor_Clamped(status, lane) ==
    IF status = "abandoned" THEN "#64748b"
    ELSE IF status = "standby" THEN "#f59e0b"
    ELSE COLORS[(IF lane < Len(COLORS) THEN lane ELSE Len(COLORS) - 1) + 1]

NodeColor(status, lane) ==
    IF status = "abandoned" THEN "#64748b"
    ELSE IF status = "standby" THEN "#f59e0b"
    ELSE COLORS[(lane % Len(COLORS)) + 1]

\* mutant: the horizontal rank step adds the box width to the gap
NodeX_BoxAndGap(o, rank, lane) ==
    IF o = "vertical" THEN lane * (NODE_WIDTH + GAP_X) + 50
    ELSE rank * (H_NODE_WIDTH + H_GAP_X) + 50

NodeX(o, rank, lane) ==
    IF o = "vertical" THEN lane * (NODE_WIDTH + GAP_X) + 50 ELSE rank * H_GAP_X + 50

NodeY(o, rank, lane) ==
    IF o = "vertical" THEN rank * (NODE_HEIGHT + GAP_Y) + 50
    ELSE lane * (H_NODE_HEIGHT + H_GAP_Y) + 50

\* the object stored by nodeMap.set(node.id, {...node, x, y, lane, color})
Rendered(node, o, rank, lane) ==
    [id |-> node.id, date |-> node.date, status |-> node.status,
     parentIds |-> node.parentIds,
     x |-> NodeX(o, rank, lane), y |-> NodeY(o, rank, lane),
     lane |-> lane, color |-> NodeColor(node.status, lane)]

----------------------------------------------------------------------------
(* calculateLayout: edges and canvas bounds *)

EdgeColor(parent, node) ==
    IF node.status = "abandoned" THEN "#94a3b8"
    ELSE IF node.status = "standby" THEN "#fbbf24"
    ELSE parent.color

\* mutant: the edge carries the parent's status
Edge_ParentStatus(parent, node) ==
    [id |-> <<parent.id, node.id>>,
     sourceX |-> parent.x, sourceY |-> parent.y,
     targetX |-> node.x, targetY |-> node.y,
     color |-> EdgeColor(parent, node), status |-> parent.status]

Edge(parent, node) ==
    [id |-> <<parent.id, node.id>>,
     sourceX |-> parent.x, sourceY |-> parent.y,
     targetX |-> node.x, targetY |-> node.y,
     color |-> EdgeColor(parent, node), status |-> node.status]

\* node.parentIds.forEach of one rendered node, from parent j on
RECURSIVE EdgesOfNode(_, _, _)
EdgesOfNode(node, j, nm) ==
    IF j > Len(node.parentIds) THEN <<>>
    ELSE (IF MapHas(nm, node.parentIds[j])
          THEN <<Edge(MapGet(nm, node.parentIds[j]), node)>>
          ELSE <<>>) \o EdgesOfNode(node, j + 1, nm)

\* renderedNodes.forEach, from element i on
RECURSIVE EdgesFrom(_, _)
EdgesFrom(i, nm) ==
    IF i > Len(nm) THEN <<>>
    ELSE EdgesOfNode(nm[i], 1, nm) \o EdgesFrom(i + 1, nm)

renderedEdges(nm) == EdgesFrom(1, nm)

\* mutant: Math.max() of no arguments taken as 0
CanvasWidth_EmptyAsZero(rn, o, innerWidth) ==
    Max2((IF Len(rn) = 0 THEN 0 ELSE SetMax({rn[i].x : i \in 1..Len(rn)}))
         + (IF o = "vertical" THEN NODE_WIDTH ELSE H_NODE_WIDTH) + 100,
         innerWidth)

\* Math.max(maxX, window.innerWidth); Math.max() of no arguments is -Infinity
CanvasWidth(rn, o, innerWidth) ==
    IF Len(rn) = 0 THEN innerWidth
    ELSE Max2(SetMax({rn[i].x : i \in 1..Len(rn)})
              + (IF o = "vertical" THEN NODE_WIDTH ELSE H_NODE_WIDTH) + 100,
              innerWidth)

\* mutant: the vertical box height is used in both orientations
CanvasHeight_NodeHeight(rn, o, innerHeight) ==
    IF Len(rn) = 0 THEN innerHeight
    ELSE Max2(SetMax({rn[i].y : i \in 1..Len(rn)}) + NODE_HEIGHT + 100, innerHeight)

CanvasHeight(rn, o, innerHeight) ==
    IF Len(rn) = 0 THEN innerHeight
    ELSE Max2(SetMax({rn[i].y : i \in 1..Len(rn)})
              + (IF o = "vertical" THEN NODE_HEIGHT ELSE H_NODE_HEIGHT) + 100,
              innerHeight)

----------------------------------------------------------------------------
(* getPath: the path "M startX startY C c1X c1Y, c2X c2Y, endX endY" as the *)
(* record of its numbers                                                    *)

\* d * 0.5; the distances between laid-out boxes are even
Half(d) == d \div 2

getPath(sx, sy, tx, ty, o) ==
    IF o = "vertical"
    THEN LET startX == sx + Half(NODE_WIDTH)
             startY == sy + NODE_HEIGHT
             endX   == tx + Half(NODE_WIDTH)
             endY   == ty
             distY  == endY - startY
         IN  [startX |-> startX, startY |-> startY,
              c1X |-> startX, c1Y |-> startY + Half(distY),
              c2X |-> endX,   c2Y |-> endY - Half(distY),
              endX |-> endX, endY |-> endY]
    ELSE LET startX == sx + 200
             startY == sy + 30
             endX   == tx
             endY   == ty + 30
             distX  == endX - startX
         IN  [startX |-> startX, startY |-> startY,
              c1X |-> startX + Half(distX), c1Y |-> startY,
              c2X |-> endX - Half(distX),   c2Y |-> endY,
              endX |-> endX, endY |-> endY]

----------------------------------------------------------------------------
(* GraphCanvas: the visibility filter *)

\* node.parentIds.some(pid => visibleSet.has(pid) && !collapsedNodeIds.includes(pid))
hasVisibleParent(node, visibleSet, collapsed) ==
    \E j \in 1..Len(node.parentIds) :
        node.parentIds[j] \in visibleSet /\ node.parentIds[j] \notin collapsed

\* sorted.forEach, from element i on: the visibleSet at the end
RECURSIVE VisibleFrom(_, _, _, _)
VisibleFrom(sorted, i, visibleSet, collapsed) ==
    IF i > Len(sorted) THEN visibleSet
    ELSE VisibleFrom(sorted, i + 1,
                     IF \/ Len(sorted[i].parentIds) = 0
                        \/ hasVisibleParent(sorted[i], visibleSet, collapsed)
                     THEN visibleSet \cup {sorted[i].id}
                     ELSE visibleSet,
                     collapsed)

\* nodes.filter(n => visibleSet.has(n.id))
visibleNodes(ns, collapsed) ==
    LET visibleSet == VisibleFrom(SortByDate(ns), 1, {}, collapsed)
        Has(n) == n.id \in visibleSet
    IN  SelectSeq(ns, Has)

----------------------------------------------------------------------------
(* The inputs explored *)

\* window.innerWidth, window.innerHeight at the time of the return
Viewports == {<<0, 0>>, <<320, 568>>, <<1280, 720>>}

\* The generated lists are counted by size.  Each node and each parentIds
\* entry counts one; each departure from the plain case counts two: a date
\* later by one (0 is the earliest date), a status other than "active", an
\* id that repeats an earlier node's id.
\* Ids are taken up to renaming: a node carries an id already used or the
\* next unused one; parent ids range over 0..n, where no node carries id 0
\* (a dangling parent id).
IdCost(id, maxid) == IF id <= maxid THEN 2 ELSE 0

DateCost(d) == 2 * d

StatusCost(st) == IF st = "active" THEN 0 ELSE 2

\* the nodes that may follow a prefix using ids 1..maxid, within budget b
NodeChoices(n, maxid, b) ==
    UNION {UNION {UNION {
        {[id |-> id, date |-> d, status |-> st, parentIds |-> pl] :
            pl \in UNION {[1..k -> 0..n] :
                k \in 0..(b - IdCost(id, maxid) - DateCost(d) - StatusCost(st))}}
        : st \in {x \in NodeStatus : IdCost(id, maxid) + DateCost(d) + StatusCost(x) <= b}}
        : d \in {x \in 0..b : IdCost(id, maxid) + DateCost(x) <= b}}
        : id \in {j \in 1..(maxid + 1) : IdCost(j, maxid) <= b}}

NodeCost(node, maxid) ==
    IdCost(node.id, maxid) + DateCost(node.date) + StatusCost(node.status)
        + Len(node.parentIds)

\* P: prefixes of i - 1 nodes with the ids used and the budget left
RECURSIVE Extend(_, _, _)
Extend(n, P, i) ==
    IF i > n THEN {x.s : x \in P}
    ELSE Extend(n,
                UNION {{[s |-> Append(x.s, node),
                         m |-> Max2(x.m, node.id),
                         b |-> x.b - NodeCost(node, x.m)] :
                            node \in NodeChoices(n, x.m, x.b)} : x \in P},
                i + 1)

\* every list of size at most b
Sized(b) == UNION {Extend(n, {[s |-> <<>>, m |-> 0, b |-> b - n]}, 1) : n \in 0..b}

SizedInputs == Sized(MaxSize)

\* n roots side by side, the first one of status s, and a child of the last
\* root of status t: enough lanes for the palette to wrap around
Fan(n, s, t) ==
    [i \in 1..(n + 1) |->
        [id |-> i, date |-> 0,
         status |-> IF i = 1 THEN s ELSE IF i = n + 1 THEN t ELSE "active",
         parentIds |-> IF i = n + 1 THEN <<n>> ELSE <<>>]]

FanInputs == {Fan(n, s, t) : n \in 1..MaxFan, s \in NodeStatus, t \in NodeStatus}

\* the view's inputs <<nodes, collapsedNodeIds>>: each collapsed id counts
\* one towards the size
ViewInputs ==
    UNION {UNION {{<<ns, c>> : c \in {x \in SUBSET (1..Len(ns)) : Cardinality(x) = k}}
                  : ns \in Sized(MaxViewSize - k)}
           : k \in 0..MaxViewSize}

\* the diamond A, B <- A, C <- A, D <- B, C with dates d0 < d1 < d2 < d3, in
\* every order of the input list
DiamondNode(id, d) ==
    [id |-> id, date |-> d[id], status |-> "active",
     parentIds |-> IF id = 1 THEN <<>> ELSE IF id = 4 THEN <<2, 3>> ELSE <<1>>]

DiamondInputs ==
    {[i \in 1..4 |-> DiamondNode(perm[i], d)] :
        perm \in {f \in [1..4 -> 1..4] : \A i, j \in 1..4 : f[i] = f[j] => i = j},
        d \in {g \in [1..4 -> 0..MaxDiamondDate] : \A i \in 1..3 : g[i] < g[i + 1]}}

HasUniqueIds(ns) == \A i, j \in 1..Len(ns) : ns[i].id = ns[j].id => i = j

----------------------------------------------------------------------------
(* The state machine of one call *)

\* part_002 line 9
DEFAULT_SHEET_ID == "default-sheet"

\* constants.ts lines 14-23; of a node the store reads id and parentIds only
INITIAL_NODES == <<[id |-> "root", status |-> "completed", parentIds |-> <<>>]>>

\* part_002 lines 14-49 with nothing saved in localStorage
StoreStart ==
    /\ sheets = <<[id |-> DEFAULT_SHEET_ID, name |-> "Main Roadmap", nodes |-> INITIAL_NODES]>>
    /\ activeSheetId = DEFAULT_SHEET_ID
    /\ uuids = 0

InitWith(ns, o) ==
    /\ nodes = ns
    /\ orientation = o
    /\ pc = "start"
    /\ sortedNodes = <<>>
    /\ ranks = EmptyMap
    /\ changed = TRUE
    /\ iterations = 0
    /\ layoutNodes = <<>>
    /\ cursor = 1
    /\ nodeMap = <<>>
    /\ laneAllocation = EmptyMap
    /\ result = NoResult
    /\ window = NotRead
    /\ previous = NoCall
    /\ sheetNodes = <<>>
    /\ collapsedNodeIds = {}
    /\ paths = <<>>
    /\ StoreStart

Init ==
    \E ns \in SizedInputs \cup DiamondInputs \cup FanInputs, o \in LayoutOrientation :
        InitWith(ns, o)

\* mutant: the map lives outside the function and is kept between calls
NewRanks_Kept == ranks

\* line 18: const ranks = new Map<string, number>()
NewRanks == EmptyMap

\* lines 14-31: the date sort, the roots, the loop variables
Start ==
    /\ pc = "start"
    /\ sortedNodes' = SortByDate(nodes)
    /\ ranks' = InitRoots(sortedNodes', 1, NewRanks)
    /\ changed' = TRUE
    /\ iterations' = 0
    /\ pc' = "rank"
    /\ UNCHANGED <<nodes, orientation, layoutNodes, cursor, nodeMap, laneAllocation, result,
                   window, previous, view, store>>

\* lines 33-59: one iteration of the while loop
RankPass ==
    /\ pc = "rank"
    /\ changed /\ iterations < maxIterations
    /\ \E r \in {RankPassFrom(sortedNodes, 1, <<ranks, FALSE>>)} :
          /\ ranks' = r[1]
          /\ changed' = r[2]
    /\ iterations' = iterations + 1
    /\ UNCHANGED <<nodes, orientation, pc, sortedNodes, layoutNodes, cursor, nodeMap,
                   laneAllocation, result, window, previous, view, store>>

\* lines 61-79: loop exit, the index fallback, the second sort, the empty maps
Fallback ==
    /\ pc = "rank"
    /\ ~(changed /\ iterations < maxIterations)
    /\ ranks' = FallbackFrom(sortedNodes, 1, ranks)
    /\ layoutNodes' = SortByRankDate(sortedNodes, ranks')
    /\ cursor' = 1
    /\ nodeMap' = <<>>
    /\ laneAllocation' = EmptyMap
    /\ pc' = "lanes"
    /\ UNCHANGED <<nodes, orientation, sortedNodes, changed, iterations, result,
                   window, previous, view, store>>

\* lines 81-145: one element of layoutNodes.forEach
LaneStep ==
    /\ pc = "lanes"
    /\ cursor <= Len(layoutNodes)
    /\ LET node == layoutNodes[cursor]
           rank == ranks[node.id]
           assignedLane == AssignLane(node, nodeMap, laneAllocation)
       IN  /\ laneAllocation' = Claim(laneAllocation, assignedLane, node)
           /\ nodeMap' = MapSet(nodeMap, Rendered(node, orientation, rank, assignedLane))
    /\ cursor' = cursor + 1
    /\ UNCHANGED <<nodes, orientation, pc, sortedNodes, ranks, changed, iterations,
                   layoutNodes, result, window, previous, view, store>>

\* lines 147-180: the edges, the canvas bounds, the return
Finish ==
    /\ pc = "lanes"
    /\ cursor > Len(layoutNodes)
    /\ \E vp \in Viewports :
          /\ window' = [innerWidth |-> vp[1], innerHeight |-> vp[2]]
          /\ result' = [returned |-> TRUE,
                        nodes  |-> nodeMap,
                        edges  |-> renderedEdges(nodeMap),
                        width  |-> CanvasWidth(nodeMap, orientation, vp[1]),
                        height |-> CanvasHeight(nodeMap, orientation, vp[2])]
    /\ pc' = "done"
    /\ UNCHANGED <<nodes, orientation, locals, previous, view, store>>

Next == Start \/ RankPass \/ Fallback \/ LaneStep \/ Finish

Spec == Init /\ [][Next]_vars

\* The function body runs to its return: no step is ever suspended.
FairSpec == Spec /\ WF_vars(Next)

----------------------------------------------------------------------------
(* A second call *)

\* the caller keeps what the call returned (and, for the properties, the
\* ranks it ended with) and calls again with the list ns and the same
\* orientation; the locals of the returned call are dead, the new call
\* declares its own
CallWith(ns) ==
    /\ pc = "done"
    /\ previous = NoCall
    /\ previous' = [called |-> TRUE, window |-> window, result |-> result,
                    nodes |-> nodes, ranks |-> ranks]
    /\ nodes' = ns
    /\ result' = NoResult
    /\ window' = NotRead
    /\ pc' = "start"
    /\ UNCHANGED <<orientation, locals, view, store>>

\* the same list again
CallAgain == CallWith(nodes)

NextTwice == Next \/ CallAgain

SpecTwice == Init /\ [][NextTwice]_vars

\* the list with every status set to "active"
AllActive(ns) ==
    [i \in 1..Len(ns) |->
        [id |-> ns[i].id, date |-> ns[i].date, status |-> "active",
         parentIds |-> ns[i].parentIds]]

\* a list that differs from the first one in its statuses only
CallRestyled ==
    /\ AllActive(nodes) # nodes
    /\ CallWith(AllActive(nodes))

NextRestyled == Next \/ CallRestyled

SpecRestyled == Init /\ [][NextRestyled]_vars

----------------------------------------------------------------------------
(* One render of GraphCanvas *)

ViewInit ==
    \E in \in ViewInputs, o \in LayoutOrientation :
        /\ sheetNodes = in[1]
        /\ collapsedNodeIds = in[2]
        /\ orientation = o
        /\ pc = "view"
        /\ nodes = <<>>
        /\ sortedNodes = <<>>
        /\ ranks = EmptyMap
        /\ changed = TRUE
        /\ iterations = 0
        /\ layoutNodes = <<>>
        /\ cursor = 1
        /\ nodeMap = <<>>
        /\ laneAllocation = EmptyMap
        /\ result = NoResult
        /\ window = NotRead
        /\ previous = NoCall
        /\ paths = <<>>
        /\ StoreStart

\* GraphCanvas.tsx lines 32-59: visibleNodes becomes the argument of the call
FilterVisible ==
    /\ pc = "view"
    /\ nodes' = visibleNodes(sheetNodes, collapsedNodeIds)
    /\ pc' = "start"
    /\ UNCHANGED <<orientation, locals, result, window, previous, view, store>>

\* GraphCanvas.tsx lines 110-120: edges.map(edge => <path d={getPath(...)} />)
Draw ==
    /\ pc = "done"
    /\ paths' = [k \in 1..Len(result.edges) |->
                    getPath(result.edges[k].sourceX, result.edges[k].sourceY,
                            result.edges[k].targetX, result.edges[k].targetY,
                            orientation)]
    /\ pc' = "drawn"
    /\ UNCHANGED <<nodes, orientation, locals, result, window, previous, sheetNodes,
                   collapsedNodeIds, store>>

ViewNext == FilterVisible \/ Next \/ Draw

ViewSpec == ViewInit /\ [][ViewNext]_vars

TypeOK ==
    /\ pc \in {"view", "start", "rank", "lanes", "done", "drawn", "store"}
    /\ iterations \in 0..(Len(nodes) + 2)
    /\ changed \in BOOLEAN
    /\ cursor \in 1..(Len(nodes) + 1)

----------------------------------------------------------------------------
(* Vocabulary of the properties *)

Range(f) == {f[i] : i \in DOMAIN f}

NodeIds(ns) == {ns[i].id : i \in 1..Len(ns)}

Present(ns, id) == id \in NodeIds(ns)

\* the ids listed as parents by the nodes carrying one of the ids of S
ParentsOf(ns, S) == UNION {Range(ns[i].parentIds) : i \in {k \in 1..Len(ns) : ns[k].id \in S}}

RECURSIVE Closure(_, _, _)
Closure(ns, S, k) == IF k = 0 THEN S ELSE Closure(ns, S \cup ParentsOf(ns, S), k - 1)

\* every id reached from id by one or more parent references
Ancestors(ns, id) == Closure(ns, ParentsOf(ns, {id}), Len(ns))

AcyclicAncestry(ns, id) ==
    \A a \in {id} \cup Ancestors(ns, id) : a \notin Ancestors(ns, a)

AllParentsPresent(ns, node) ==
    \A j \in 1..Len(node.parentIds) : Present(ns, node.parentIds[j])

\* the ranks are final from the fallback on
RanksFinal == pc \in {"lanes", "done"}

Returned == pc = "done"

----------------------------------------------------------------------------
(* Properties *)

\* C1: a node whose listed parents are all present and whose ancestry has no
\* cycle ends with rank 1 + max over its parents' ranks, and a node with an
\* empty parentIds ends with rank 0 (stated for inputs with distinct ids).
C1_RankInvariant ==
    (RanksFinal /\ HasUniqueIds(nodes)) =>
        \A i \in 1..Len(nodes) :
            LET node == nodes[i] IN
            /\ Len(node.parentIds) = 0 => ranks[node.id] = 0
            /\ (/\ Len(node.parentIds) > 0
                /\ AllParentsPresent(nodes, node)
                /\ AcyclicAncestry(nodes, node.id))
               => ranks[node.id] = 1 + SetMax({ranks[p] : p \in Range(node.parentIds)})

\* C2: a node whose only parent id is absent from the input gets rank 0 and
\* no edge, whatever its place in the date order.
C2_DanglingOnlyParent ==
    (Returned /\ HasUniqueIds(nodes)) =>
        \A i \in 1..Len(nodes) :
            LET node == nodes[i] IN
            (Len(node.parentIds) = 1 /\ ~Present(nodes, node.parentIds[1]))
            => /\ ranks[node.id] = 0
               /\ \A e \in 1..Len(result.edges) : result.edges[e].id[2] # node.id

\* position in the lane pass of the node carrying id, and its resolved lane
\* (inputs with distinct ids)
Pos(id) == CHOOSE k \in 1..Len(layoutNodes) : layoutNodes[k].id = id
Lane(id) == MapGet(nodeMap, id).lane

\* some other node, processed after P and before position c, was given P's lane
TakenOver(P, c) ==
    \E q \in 1..(c - 1) : q > Pos(P) /\ Lane(layoutNodes[q].id) = Lane(P)

NoDangling(ns) == \A i \in 1..Len(ns) : AllParentsPresent(ns, ns[i])

\* C3 as stated: if C's first listed parent P is present and no node
\* processed before C has taken over P's lane, then lane(C) = lane(P)
\* (stated here for the inputs with distinct ids and no dangling parent id).
C3_InheritAnyInput ==
    (Returned /\ HasUniqueIds(nodes) /\ NoDangling(nodes)) =>
        \A c \in 1..Len(layoutNodes) :
            LET C == layoutNodes[c] IN
            (/\ Len(C.parentIds) > 0
             /\ Present(nodes, C.parentIds[1])
             /\ ~TakenOver(C.parentIds[1], c))
            => Lane(C.id) = Lane(C.parentIds[1])

\* C3 amended: for inputs with distinct ids, if C's first listed parent P is
\* present, was processed before C in the lane pass, and no node processed
\* in between has taken over P's lane, then lane(C) = lane(P).
C3_InheritFromPlacedParent ==
    (Returned /\ HasUniqueIds(nodes)) =>
        \A c \in 1..Len(layoutNodes) :
            LET C == layoutNodes[c] IN
            (/\ Len(C.parentIds) > 0
             /\ Present(nodes, C.parentIds[1])
             /\ Pos(C.parentIds[1]) < c
             /\ ~TakenOver(C.parentIds[1], c))
            => Lane(C.id) = Lane(C.parentIds[1])

\* a node inherited a lane other than lane 0 from its placed first parent
C3_Witness ==
    /\ Returned /\ HasUniqueIds(nodes)
    /\ \E c \in 1..Len(layoutNodes) :
          LET C == layoutNodes[c] IN
          /\ Len(C.parentIds) > 0
          /\ Present(nodes, C.parentIds[1])
          /\ Pos(C.parentIds[1]) < c
          /\ ~TakenOver(C.parentIds[1], c)
          /\ Lane(C.id) > 0

Injective(f) == \A a, b \in DOMAIN f : f[a] = f[b] => a = b

\* the node processed last is the recorded claimant of the lane it was given
LastClaims ==
    (pc = "lanes" /\ cursor > 1) =>
        LET id == layoutNodes[cursor - 1].id IN
        /\ Lane(id) \in DOMAIN laneAllocation
        /\ laneAllocation[Lane(id)] = id

\* C4 as stated: at every step of the lane pass the node just placed is the
\* claimant of its lane and the map lane -> claimant is injective.
C4_ClaimsInjective == LastClaims /\ Injective(laneAllocation)

\* C4 amended: the same, for inputs whose node ids are pairwise distinct.
C4_ClaimsInjectiveUniqueIds == HasUniqueIds(nodes) => (LastClaims /\ Injective(laneAllocation))

\* a lane has been taken over: a placed node is no longer the claimant of its lane
C4_Witness ==
    /\ pc = "lanes" /\ HasUniqueIds(nodes)
    /\ Cardinality(DOMAIN laneAllocation) >= 2
    /\ \E k \in 1..Len(nodeMap) : laneAllocation[nodeMap[k].lane] # nodeMap[k].id

IsDiamond(ns) == ns \in DiamondInputs

\* C5: the diamond gets ranks 0,1,1,2, lanes 0,0,1,0 and exactly the four
\* edges A->B, A->C, B->D, C->D.
C5_Diamond ==
    (Returned /\ IsDiamond(nodes)) =>
        /\ ranks = [i \in 1..4 |-> IF i = 1 THEN 0 ELSE IF i = 4 THEN 2 ELSE 1]
        /\ [i \in 1..4 |-> MapGet(result.nodes, i).lane]
               = [i \in 1..4 |-> IF i = 3 THEN 1 ELSE 0]
        /\ Len(result.edges) = 4
        /\ {result.edges[e].id : e \in 1..4} = {<<1, 2>>, <<1, 3>>, <<2, 4>>, <<3, 4>>}

\* the diamond, given in an order other than its date order, has been laid out
C5_Witness ==
    /\ Returned /\ IsDiamond(nodes)
    /\ nodes # sortedNodes

\* C6: every call returns, and the rank loop makes at most N + 2 passes.
C6_Terminates ==
    /\ [](iterations <= Len(nodes) + 2)
    /\ <>(pc = "done" /\ result.returned)

\* a call returned after the iteration cap stopped a loop that was still changing
C6_Witness ==
    /\ Returned
    /\ iterations = Len(nodes) + 2
    /\ changed

MutualPair(ns) ==
    /\ Len(ns) = 2
    /\ ns[1].id # ns[2].id
    /\ ns[1].parentIds = <<ns[2].id>>
    /\ ns[2].parentIds = <<ns[1].id>>

\* C7: on two nodes that list each other as only parent the call returns,
\* the rank loop assigns nothing, and each node's rank is its zero-based
\* position in the date-sorted order.
C7_MutualCycle ==
    /\ []((MutualPair(nodes) /\ pc = "rank") => DOMAIN ranks = {})
    /\ MutualPair(nodes) ~>
           (Returned /\ Len(sortedNodes) = 2
                     /\ \A k \in 1..2 : ranks[sortedNodes[k].id] = k - 1)

\* a mutual pair whose date order differs from its input order has been laid out
C7_Witness ==
    /\ Returned
    /\ MutualPair(nodes)
    /\ sortedNodes # nodes

WorkflowFields(r) ==
    [id |-> r.id, date |-> r.date, status |-> r.status, parentIds |-> r.parentIds]

NodeColors == Range(COLORS) \cup {"#64748b", "#f59e0b"}

OnePerInputNode ==
    /\ Len(result.nodes) = Len(nodes)
    /\ \A i \in 1..Len(nodes) :
          Cardinality({k \in 1..Len(result.nodes) :
                          WorkflowFields(result.nodes[k]) = nodes[i]}) = 1
    /\ \A k \in 1..Len(result.nodes) :
          /\ result.nodes[k].lane \in Nat
          /\ result.nodes[k].x \in Nat
          /\ result.nodes[k].y \in Nat
          /\ result.nodes[k].color \in NodeColors

\* C8 as stated: for every input the result holds exactly one rendered node
\* per input node, with the node's fields, a lane in Nat, coordinates, a colour.
C8_OnePerInputNode == Returned => OnePerInputNode

\* C8 amended: the same, for every input whose node ids are pairwise distinct.
C8_OnePerInputNodeUniqueIds == (Returned /\ HasUniqueIds(nodes)) => OnePerInputNode

\* three nodes with distinct ids were rendered on at least two lanes, in an
\* order other than the input order
C8_Witness ==
    /\ Returned /\ HasUniqueIds(nodes)
    /\ Len(nodes) = 3
    /\ [k \in 1..3 |-> result.nodes[k].id] # [k \in 1..3 |-> nodes[k].id]
    /\ \E k \in 1..3 : result.nodes[k].lane > 0

\* the edges from parent id p to child id c
EdgesOfPair(p, c) == {e \in 1..Len(result.edges) : result.edges[e].id = <<p, c>>}

\* every edge joins a listed, present parent to its child and carries the
\* parent's and the child's coordinates and the child's status
EdgesWellFormed ==
    \A e \in 1..Len(result.edges) :
        LET E == result.edges[e] IN
        /\ Present(nodes, E.id[1]) /\ Present(nodes, E.id[2])
        /\ E.id[1] \in Range(MapGet(result.nodes, E.id[2]).parentIds)
        /\ E.sourceX = MapGet(result.nodes, E.id[1]).x
        /\ E.sourceY = MapGet(result.nodes, E.id[1]).y
        /\ E.targetX = MapGet(result.nodes, E.id[2]).x
        /\ E.targetY = MapGet(result.nodes, E.id[2]).y
        /\ E.status = MapGet(result.nodes, E.id[2]).status

\* C9 as stated: exactly one edge per (parent, child) pair in which the child
\* lists the parent and both are present, none for an absent parent id, each
\* with the parent's and child's coordinates and the child's status (stated
\* here for the inputs with distinct ids).
C9_OneEdgePerPair ==
    (Returned /\ HasUniqueIds(nodes)) =>
        /\ EdgesWellFormed
        /\ \A i \in 1..Len(nodes) : \A p \in Range(nodes[i].parentIds) :
              Present(nodes, p) => Cardinality(EdgesOfPair(p, nodes[i].id)) = 1

\* C9 amended: for inputs with distinct ids there is exactly one edge per
\* entry of a node's parentIds that names a present node (a parent listed
\* twice gives two edges), none for an absent parent id, each with the
\* parent's and child's coordinates and the child's status.
C9_OneEdgePerParentEntry ==
    (Returned /\ HasUniqueIds(nodes)) =>
        /\ EdgesWellFormed
        /\ \A i \in 1..Len(nodes) : \A p \in Range(nodes[i].parentIds) :
              Present(nodes, p) =>
                  Cardinality(EdgesOfPair(p, nodes[i].id))
                      = Cardinality({j \in 1..Len(nodes[i].parentIds) : nodes[i].parentIds[j] = p})

\* an edge joins two nodes of different status, next to a dangling parent id
C9_Witness ==
    /\ Returned /\ HasUniqueIds(nodes)
    /\ \E e \in 1..Len(result.edges) :
          result.edges[e].status # MapGet(result.nodes, result.edges[e].id[1]).status
    /\ ~NoDangling(nodes)

GapFree(la) == DOMAIN la = 0..(Cardinality(DOMAIN la) - 1)

\* the node about to be processed finds its first parent placed and still
\* the claimant of its lane
FirstParentStillClaims ==
    LET node == layoutNodes[cursor] IN
    /\ Len(node.parentIds) > 0
    /\ MapHas(nodeMap, node.parentIds[1])
    /\ laneAllocation[MapGet(nodeMap, node.parentIds[1]).lane] = node.parentIds[1]

\* C10: a node that cannot inherit gets the smallest lane index without a
\* claimant, and after every step the lanes in use are 0..k-1 without a gap.
C10_SmallestFreeLane ==
    [][/\ GapFree(laneAllocation')
       /\ (pc = "lanes" /\ cursor <= Len(layoutNodes) /\ ~FirstParentStillClaims)
          => \E l \in 0..Len(nodes) :
                /\ l \notin DOMAIN laneAllocation
                /\ \A k \in 0..(l - 1) : k \in DOMAIN laneAllocation
                /\ MapGet(nodeMap', layoutNodes[cursor].id).lane = l
                /\ laneAllocation'[l] = layoutNodes[cursor].id]_vars

\* a node whose placed first parent had lost its lane took a fresh lane
C10_Witness ==
    /\ pc = "lanes" /\ cursor > 1
    /\ LET node == layoutNodes[cursor - 1] IN
       /\ Len(node.parentIds) > 0
       /\ node.parentIds[1] # node.id
       /\ MapHas(nodeMap, node.parentIds[1])
       /\ MapGet(nodeMap, node.id).lane # MapGet(nodeMap, node.parentIds[1]).lane
       /\ MapGet(nodeMap, node.id).lane >= 1

\* C11: a second call with the same node list and orientation that reads the
\* same window size returns the same object as the first call: the same
\* rendered nodes in the same order, the same edges, width and height.
C11_SameResult ==
    (previous.called /\ pc = "done" /\ window = previous.window)
        => result = previous.result

\* a second call on a list with an edge has returned under the same window size
C11_Witness ==
    /\ previous.called /\ pc = "done"
    /\ window = previous.window
    /\ Len(result.nodes) >= 2
    /\ Len(result.edges) >= 1

\* the ids visible under the rule: the least set holding the id of every node
\* without parents and of every node with a parent in the set that is not
\* collapsed
RECURSIVE VisibleIds(_, _, _, _)
VisibleIds(ns, collapsed, V, k) ==
    IF k = 0 THEN V
    ELSE VisibleIds(ns, collapsed,
                    {ns[i].id : i \in {j \in 1..Len(ns) :
                        \/ Len(ns[j].parentIds) = 0
                        \/ \E p \in Range(ns[j].parentIds) : p \in V /\ p \notin collapsed}},
                    k - 1)

VisibleByRule(ns, collapsed) ==
    LET V == VisibleIds(ns, collapsed, {}, Len(ns) + 1)
        Has(n) == n.id \in V
    IN  SelectSeq(ns, Has)

\* C12: the list handed to calculateLayout by the view is the list of the
\* nodes visible under the rule (stated for node collections with distinct
\* ids), whatever the dates and the order of the collection.
C12_VisibleRule ==
    (pc # "view" /\ HasUniqueIds(sheetNodes))
        => nodes = VisibleByRule(sheetNodes, collapsedNodeIds)

\* the extent of a node box per orientation, as the canvas rule states it
BoxWidth == IF orientation = "vertical" THEN 180 ELSE 200

BoxHeight == IF orientation = "vertical" THEN 80 ELSE 100

\* C13: the returned width is the largest of the viewport width and every
\* rendered node's x + box width + 100, likewise the height; so every box
\* plus the margin lies inside the canvas, which is never smaller than the
\* viewport.
C13_Canvas ==
    Returned =>
        LET rn == result.nodes IN
        /\ result.width
              = SetMax({window.innerWidth} \cup {rn[k].x + BoxWidth + 100 : k \in 1..Len(rn)})
        /\ result.height
              = SetMax({window.innerHeight} \cup {rn[k].y + BoxHeight + 100 : k \in 1..Len(rn)})
        /\ \A k \in 1..Len(rn) :
              /\ rn[k].x + BoxWidth + 100 <= result.width
              /\ rn[k].y + BoxHeight + 100 <= result.height
        /\ result.width >= window.innerWidth
        /\ result.height >= window.innerHeight

\* in one result the nodes fix the width and the viewport fixes the height
C13_Witness ==
    /\ Returned
    /\ Len(result.nodes) >= 2
    /\ result.width > window.innerWidth
    /\ result.height = window.innerHeight
    /\ \A k \in 1..Len(result.nodes) : result.nodes[k].y + BoxHeight + 100 < result.height

SingleRoot == Len(nodes) = 1 /\ Len(nodes[1].parentIds) = 0

SingleRootPlaced ==
    /\ Len(result.nodes) = 1
    /\ ranks[nodes[1].id] = 0
    /\ result.nodes[1].lane = 0
    /\ result.nodes[1].x = 50
    /\ result.nodes[1].y = 50
    /\ result.edges = <<>>

\* C14 as stated: a single node without parents gives one rendered node at
\* rank 0 and lane 0, no edge, and a canvas equal to the viewport, for every
\* viewport size.
C14_SingleRootViewport ==
    (Returned /\ SingleRoot) =>
        /\ SingleRootPlaced
        /\ result.width = window.innerWidth
        /\ result.height = window.innerHeight

\* C14 amended: a single node without parents gives one rendered node at
\* rank 0 and lane 0, no edge, and a canvas that is the viewport floored at
\* the node's box plus margin: 330 x 230 vertical, 350 x 250 horizontal.
C14_SingleRootFloor ==
    (Returned /\ SingleRoot) =>
        /\ SingleRootPlaced
        /\ result.width = Max2(window.innerWidth, 50 + BoxWidth + 100)
        /\ result.height = Max2(window.innerHeight, 50 + BoxHeight + 100)
        /\ (window.innerWidth >= 350 /\ window.innerHeight >= 250)
              => (result.width = window.innerWidth /\ result.height = window.innerHeight)

\* a single root has been laid out in a viewport larger than its box
C14_Witness ==
    /\ Returned /\ SingleRoot
    /\ window.innerWidth >= 350 /\ window.innerHeight >= 250
    /\ result.width = window.innerWidth

\* C15: the empty list gives no rendered node, no edge and a canvas of
\* exactly the viewport's width and height.
C15_EmptyInput ==
    (Returned /\ Len(nodes) = 0) =>
        /\ result.nodes = <<>>
        /\ result.edges = <<>>
        /\ result.width = window.innerWidth
        /\ result.height = window.innerHeight

\* the empty list has been laid out in a viewport smaller than a node box
C15_Witness ==
    /\ Returned /\ Len(nodes) = 0
    /\ window.innerWidth < 180

\* C16: every rendered node's coordinates are the affine function of its rank
\* and lane: vertical x = lane*(180+50)+50, y = rank*(80+120)+50; horizontal
\* x = rank*250+50, y = lane*(100+80)+50.
C16_Coordinates ==
    (pc \in {"lanes", "done"}) =>
        \A k \in 1..Len(nodeMap) :
            LET r == nodeMap[k]
                rank == ranks[r.id]
            IN  /\ orientation = "vertical"
                    => (r.x = r.lane * (180 + 50) + 50 /\ r.y = rank * (80 + 120) + 50)
                /\ orientation = "horizontal"
                    => (r.x = rank * 250 + 50 /\ r.y = r.lane * (100 + 80) + 50)
                /\ Returned => result.nodes[k] = r

\* a horizontal layout has returned a node of rank and lane above 0
C16_Witness ==
    /\ Returned /\ orientation = "horizontal"
    /\ \E k \in 1..Len(result.nodes) :
          /\ result.nodes[k].lane >= 1
          /\ ranks[result.nodes[k].id] >= 1
          /\ result.nodes[k].x >= 300
          /\ result.nodes[k].y >= 230

\* what a result says about the layout, leaving out status and colours
NodeGeometry(rn) ==
    [k \in 1..Len(rn) |->
        [id |-> rn[k].id, lane |-> rn[k].lane, x |-> rn[k].x, y |-> rn[k].y]]

EdgeGeometry(re) ==
    [k \in 1..Len(re) |->
        [id |-> re[k].id, sourceX |-> re[k].sourceX, sourceY |-> re[k].sourceY,
         targetX |-> re[k].targetX, targetY |-> re[k].targetY]]

\* C17: a list that differs from another one in its statuses only gets the
\* same ranks, the same lane, x and y for every node, the same edge endpoints
\* and the same canvas size (both calls reading the same window size).
C17_StatusBlind ==
    (previous.called /\ pc = "done" /\ window = previous.window) =>
        /\ ranks = previous.ranks
        /\ NodeGeometry(result.nodes) = NodeGeometry(previous.result.nodes)
        /\ EdgeGeometry(result.edges) = EdgeGeometry(previous.result.edges)
        /\ result.width = previous.result.width
        /\ result.height = previous.result.height

\* the first list had an abandoned child and a standby node, the second list
\* has neither, and both calls have returned
C17_Witness ==
    /\ previous.called /\ pc = "done" /\ window = previous.window
    /\ \E i, j \in 1..Len(previous.nodes) :
          /\ previous.nodes[i].status = "abandoned"
          /\ Len(previous.nodes[i].parentIds) > 0
          /\ previous.nodes[j].status = "standby"
    /\ \A i \in 1..Len(nodes) : nodes[i].status = "active"
    /\ Len(result.edges) >= 1

\* C18: a node's colour is the palette entry at index lane mod 7, unless the
\* node is abandoned (#64748b) or standby (#f59e0b); an edge's colour is the
\* colour of its parent's rendered node, unless the child is abandoned
\* (#94a3b8) or standby (#fbbf24).
C18_Colours ==
    Returned =>
        /\ \A k \in 1..Len(result.nodes) :
              LET r == result.nodes[k] IN
              r.color = IF r.status = "abandoned" THEN "#64748b"
                        ELSE IF r.status = "standby" THEN "#f59e0b"
                        ELSE COLORS[(r.lane % 7) + 1]
        /\ \A e \in 1..Len(result.edges) :
              LET E == result.edges[e]
                  parent == MapGet(result.nodes, E.id[1])
                  child  == MapGet(result.nodes, E.id[2])
              IN  E.color = IF child.status = "abandoned" THEN "#94a3b8"
                            ELSE IF child.status = "standby" THEN "#fbbf24"
                            ELSE parent.color

\* an edge leaves a parent in lane 7, where the palette has wrapped around to
\* its first colour, and another node is abandoned or standby
C18_Witness ==
    /\ Returned
    /\ \E e \in 1..Len(result.edges) :
          /\ MapGet(result.nodes, result.edges[e].id[1]).lane = 7
          /\ MapGet(result.nodes, result.edges[e].id[1]).status = "active"
          /\ result.edges[e].color = COLORS[1]
    /\ \E k \in 1..Len(result.nodes) : result.nodes[k].status \in {"abandoned", "standby"}

\* C19: every path starts and ends at the centres of the box edges: vertical
\* from (sx + 180/2, sy + 80) to (tx + 180/2, ty); horizontal from
\* (sx + H_NODE_WIDTH, sy + H_NODE_HEIGHT/2) to (tx, ty + H_NODE_HEIGHT/2).
C19_EdgeCentres ==
    (pc = "drawn") =>
        \A k \in 1..Len(paths) :
            LET E == result.edges[k]
                P == paths[k]
            IN  /\ orientation = "vertical" =>
                      /\ P.startX = E.sourceX + 90 /\ P.startY = E.sourceY + 80
                      /\ P.endX = E.targetX + 90   /\ P.endY = E.targetY
                /\ orientation = "horizontal" =>
                      /\ P.startX = E.sourceX + H_NODE_WIDTH
                      /\ P.startY = E.sourceY + (H_NODE_HEIGHT \div 2)
                      /\ P.endX = E.targetX
                      /\ P.endY = E.targetY + (H_NODE_HEIGHT \div 2)

----------------------------------------------------------------------------
(* Ranks against the length of parent-to-child paths *)

\* the ids of the nodes that list p among their parents
ChildIds(ns, p) == {ns[i].id : i \in {k \in 1..Len(ns) : p \in Range(ns[k].parentIds)}}

\* edges on the longest path that starts at id and repeats no id of `seen`
RECURSIVE LongestFrom(_, _, _)
LongestFrom(ns, id, seen) ==
    LET next == ChildIds(ns, id) \ seen
    IN  IF next = {} THEN 0
        ELSE 1 + SetMax({LongestFrom(ns, c, seen \cup {c}) : c \in next})

\* edges on the longest parent-to-child path through the ids present in ns
LongestPath(ns) == SetMax({0} \cup {LongestFrom(ns, id, {id}) : id \in NodeIds(ns)})

\* every ancestor of id is a node of the input
AncestorsPresent(ns, id) == Ancestors(ns, id) \subseteq NodeIds(ns)

\* C20 (as stated): for every input, cycles included, during the rank loop and
\* in the final result no rank exceeds the number of edges on the longest
\* parent-to-child path through the present nodes, nor N - 1.
C20_RankBoundAnyInput ==
    (pc \in {"rank", "lanes", "done"}) =>
        \A id \in DOMAIN ranks :
            /\ ranks[id] <= LongestPath(nodes)
            /\ ranks[id] <= Len(nodes) - 1

\* C20 (amended): a node whose ancestry has no cycle never has a rank above
\* N - 1; its rank stays within the longest path length while the loop runs,
\* and in the final result too when all of its ancestors are present.
C20_RankBoundAcyclic ==
    (pc \in {"rank", "lanes", "done"}) =>
        \A id \in DOMAIN ranks :
            AcyclicAncestry(nodes, id) =>
                /\ ranks[id] <= Len(nodes) - 1
                /\ (pc = "rank" \/ AncestorsPresent(nodes, id)) =>
                       ranks[id] <= LongestPath(nodes)

\* a returned layout of an input without cycles in which one node sits at the
\* end of a longest path and another, with an absent ancestor, was ranked by
\* the fallback above the longest path length
C20_Witness ==
    /\ Returned
    /\ \A id \in NodeIds(nodes) : AcyclicAncestry(nodes, id)
    /\ LongestPath(nodes) >= 1
    /\ \E id \in DOMAIN ranks :
          ranks[id] = LongestPath(nodes) /\ AncestorsPresent(nodes, id)
    /\ \E id \in DOMAIN ranks :
          ranks[id] > LongestPath(nodes) /\ ~AncestorsPresent(nodes, id)

----------------------------------------------------------------------------
(* Which nodes the rank loop leaves without a rank *)

\* the while condition is false: the loop has stopped, the fallback has not run
LoopStopped == pc = "rank" /\ ~(changed /\ iterations < maxIterations)

\* some node of the input is its own ancestor
HasCycle(ns) == \E id \in NodeIds(ns) : id \in Ancestors(ns, id)

\* C21: a node is without a rank when the loop stops only if none of its
\* ancestors is present in the input or the input contains a parent cycle.
C21_UnrankedOnlyIf ==
    LoopStopped =>
        \A i \in 1..Len(sortedNodes) :
            sortedNodes[i].id \notin DOMAIN ranks =>
                \/ Ancestors(nodes, sortedNodes[i].id) \cap NodeIds(nodes) = {}
                \/ HasCycle(nodes)

----------------------------------------------------------------------------
(* The rank loop on inputs without cycles *)

\* a further pass over sn would change nothing
UpdateFix(sn, rk) == RankPassFrom(sn, 1, <<rk, FALSE>>) = <<rk, FALSE>>

\* C22 (as stated): for every acyclic input of N nodes the loop ends because a
\* full pass produced no change, after at most N passes, and the final ranks
\* are a fixpoint of the update rule.
C22_FixpointWithinN ==
    ~HasCycle(nodes) =>
        /\ LoopStopped =>
              /\ ~changed
              /\ iterations <= Len(nodes)
              /\ UpdateFix(sortedNodes, ranks)
        /\ RanksFinal => UpdateFix(sortedNodes, ranks)

\* C22 (amended): for every acyclic input of N nodes the loop ends because a
\* full pass produced no change, after at most max(N, 1) passes, and the ranks
\* it leaves are a fixpoint of the update rule.
C22_FixpointAtLoopExit ==
    (LoopStopped /\ ~HasCycle(nodes)) =>
        /\ ~changed
        /\ iterations <= Max2(Len(nodes), 1)
        /\ iterations < maxIterations
        /\ UpdateFix(sortedNodes, ranks)

\* the loop has stopped on a chain of three nodes listed child first, after
\* as many passes as there are nodes
C22_Witness ==
    /\ LoopStopped
    /\ ~HasCycle(nodes)
    /\ Len(nodes) >= 3
    /\ iterations = Len(nodes)
    /\ \E id \in DOMAIN ranks : ranks[id] = Len(nodes) - 1

----------------------------------------------------------------------------
(* Cells of the grid *)

\* C23: for every input with unique node ids, dangling parent ids included, no
\* two distinct rendered nodes have the same (rank, lane) cell, hence no two
\* have the same (x, y).
C23_DistinctCells ==
    (Returned /\ HasUniqueIds(nodes)) =>
        \A i, j \in 1..Len(result.nodes) :
            i # j =>
                /\ ~(/\ ranks[result.nodes[i].id] = ranks[result.nodes[j].id]
                     /\ result.nodes[i].lane = result.nodes[j].lane)
                /\ ~(/\ result.nodes[i].x = result.nodes[j].x
                     /\ result.nodes[i].y = result.nodes[j].y)

----------------------------------------------------------------------------
(* Several parents: only the first one hands down its lane *)

\* the j-th listed parent of the node about to be processed is placed and is
\* the claimant of its lane
ParentStillClaims(j) ==
    LET pid == layoutNodes[cursor].parentIds[j] IN
    /\ MapHas(nodeMap, pid)
    /\ MapGet(nodeMap, pid).lane \in DOMAIN laneAllocation
    /\ laneAllocation[MapGet(nodeMap, pid).lane] = pid

\* C24: a node with several parents inherits a lane only from its first-listed
\* parent; when that parent is absent, not yet placed or no longer the
\* claimant of its lane, the node takes a fallback lane, one that had no
\* claimant, even if another listed parent still claims its own lane.
C24_FirstParentOnly ==
    [][(pc = "lanes" /\ cursor <= Len(layoutNodes)
        /\ Len(layoutNodes[cursor].parentIds) >= 2)
       => LET node == layoutNodes[cursor]
              lane == MapGet(nodeMap', node.id).lane
          IN  IF ParentStillClaims(1)
              THEN lane = MapGet(nodeMap, node.parentIds[1]).lane
              ELSE /\ lane \notin DOMAIN laneAllocation
                   /\ \A j \in 2..Len(node.parentIds) :
                         ParentStillClaims(j) =>
                             lane # MapGet(nodeMap, node.parentIds[j]).lane]_vars

\* the node just placed lists a first parent that is placed but had lost its
\* lane, and a second parent that still claims its own lane; the node sits in
\* neither parent's lane
C24_Witness ==
    /\ pc = "lanes" /\ cursor > 1
    /\ LET node == layoutNodes[cursor - 1] IN
       /\ Len(node.parentIds) >= 2
       /\ node.parentIds[1] # node.id /\ node.parentIds[2] # node.id
       /\ MapHas(nodeMap, node.parentIds[1])
       /\ MapHas(nodeMap, node.parentIds[2])
       /\ laneAllocation[MapGet(nodeMap, node.parentIds[1]).lane] # node.parentIds[1]
       /\ laneAllocation[MapGet(nodeMap, node.parentIds[2]).lane] = node.parentIds[2]
       /\ MapGet(nodeMap, node.id).lane # MapGet(nodeMap, node.parentIds[1]).lane
       /\ MapGet(nodeMap, node.id).lane # MapGet(nodeMap, node.parentIds[2]).lane

----------------------------------------------------------------------------
(* Lanes are opened, handed down, never released *)

\* the k-th node of the lane pass sits in the lane of its first parent, which
\* was placed before it (read for inputs with unique ids)
Inherited(k) ==
    LET node == layoutNodes[k] IN
    /\ Len(node.parentIds) > 0
    /\ MapHas(nodeMap, node.parentIds[1])
    /\ Pos(node.parentIds[1]) < k
    /\ Lane(node.id) = Lane(node.parentIds[1])

\* C25: a lane claim is never released during the lane pass; a fallback
\* allocation opens the index equal to the number of lanes opened so far; a
\* lane that had a claimant is entered only by a child of that claimant; the
\* number of lanes used equals the number of nodes that did not inherit.
C25_NeverReleased ==
    [][(pc = "lanes" /\ cursor <= Len(layoutNodes))
       => LET node == layoutNodes[cursor]
              lane == MapGet(nodeMap', node.id).lane
          IN  /\ DOMAIN laneAllocation \subseteq DOMAIN laneAllocation'
              /\ IF FirstParentStillClaims
                 THEN /\ DOMAIN laneAllocation' = DOMAIN laneAllocation
                      /\ laneAllocation[lane] = node.parentIds[1]
                 ELSE /\ lane = Cardinality(DOMAIN laneAllocation)
                      /\ lane \notin DOMAIN laneAllocation
                      /\ DOMAIN laneAllocation' = DOMAIN laneAllocation \cup {lane}
              /\ \A l \in DOMAIN laneAllocation' \ {lane} :
                    laneAllocation'[l] = laneAllocation[l]
              /\ HasUniqueIds(nodes) =>
                    Cardinality(DOMAIN laneAllocation') =
                        Cardinality({k \in 1..cursor : ~Inherited(k)'})]_vars

\* the lane pass is over for four nodes with distinct ids: some inherited, some
\* opened a lane, and a claimed lane has changed hands
C25_Witness ==
    /\ pc = "lanes" /\ cursor > Len(layoutNodes)
    /\ HasUniqueIds(nodes)
    /\ Len(layoutNodes) >= 4
    /\ Cardinality(DOMAIN laneAllocation) = 2
    /\ Cardinality({k \in 1..Len(layoutNodes) : Inherited(k)}) = 2

----------------------------------------------------------------------------
(* The workflow store, context/WorkflowContext.tsx (part_002).  A sheet and a *)
(* node are records; a key that an imported object lacks is absent from the  *)
(* record.  JSON text is represented by the outcome of JSON.parse.           *)

\* the k-th value returned by uuidv4()
Uuid(k) == "uuid-" \o ToString(k)

\* obj.key !== undefined, 'key' in obj
Has(obj, key) == key \in DOMAIN obj

\* {...obj, key: value}
With(obj, key, value) ==
    [k \in (DOMAIN obj) \cup {key} |-> IF k = key THEN value ELSE obj[k]]

\* {...obj, key: undefined}
Without(obj, key) == [k \in (DOMAIN obj) \ {key} |-> obj[k]]

\* array.map(f)
Map(seq, f(_)) == [i \in 1..Len(seq) |-> f(seq[i])]

\* JSON.parse throws
NotJson == [valid |-> FALSE]

\* JSON.parse returns something that is not an array
NotArray == [valid |-> TRUE, array |-> FALSE]

\* JSON.parse returns the array `items`
Text(items) == [valid |-> TRUE, array |-> TRUE, items |-> items]

\* an element of a parsed array: an object with the given fields, or a number
Obj(fields) == [object |-> TRUE, fields |-> fields]
Num == [object |-> FALSE]

\* {...element}: a number spreads to no keys
Spread(el) == IF el.object THEN el.fields ELSE <<>>

\* sheet.nodes || [] (line 59)
NodesOf(s) == IF Has(s, "nodes") THEN s.nodes ELSE <<>>

\* a.name === b.name, undefined included
SameName(a, b) ==
    IF Has(a, "name") /\ Has(b, "name") THEN a.name = b.name
    ELSE ~Has(a, "name") /\ ~Has(b, "name")

\* lines 14-32: the initial value of sheets, from what localStorage holds
LoadSheets(saved) ==
    IF saved.valid /\ saved.array /\ Len(saved.items) > 0 /\ saved.items[1].object
       /\ Has(saved.items[1].fields, "nodes")
    THEN Map(saved.items, Spread)
    ELSE IF saved.valid /\ saved.array /\ (Len(saved.items) = 0 \/ saved.items[1].object)
    THEN <<[id |-> DEFAULT_SHEET_ID, name |-> "Main Roadmap",
            nodes |-> Map(saved.items, Spread)]>>
    ELSE <<[id |-> DEFAULT_SHEET_ID, name |-> "Main Roadmap", nodes |-> INITIAL_NODES]>>

\* lines 34-46: the initial value of activeSheetId
LoadActive(saved) ==
    IF saved.valid /\ saved.array /\ Len(saved.items) > 0 /\ saved.items[1].object
       /\ Has(saved.items[1].fields, "nodes")
    THEN saved.items[1].fields.id
    ELSE DEFAULT_SHEET_ID

\* lines 57-58: activeSheetIndex, 0 standing for -1
activeSheetIndex ==
    IF \E i \in 1..Len(sheets) : sheets[i].id = activeSheetId
    THEN CHOOSE i \in 1..Len(sheets) :
            /\ sheets[i].id = activeSheetId
            /\ \A j \in 1..(i - 1) : sheets[j].id # activeSheetId
    ELSE 0

\* lines 58-59: the `nodes` of the context (currentSheet?.nodes || [])
contextNodes ==
    IF Len(sheets) = 0 THEN <<>>
    ELSE NodesOf(sheets[IF activeSheetIndex # 0 THEN activeSheetIndex ELSE 1])

\* lines 102-104
updateActiveSheetNodes(newNodes) ==
    [i \in 1..Len(sheets) |->
        IF sheets[i].id = activeSheetId THEN With(sheets[i], "nodes", newNodes)
        ELSE sheets[i]]

\* the explored stores: sheets and nodes together number at most MaxStoreSize
RECURSIVE StoreSize(_)
StoreSize(sh) ==
    IF Len(sh) = 0 THEN 0 ELSE 1 + Len(NodesOf(Head(sh))) + StoreSize(Tail(sh))

\* everything outside the store
outside == <<nodes, orientation, pc, locals, result, window, previous, sheetNodes, paths>>

\* lines 62-72
createSheet ==
    /\ uuids < MaxUuids
    /\ uuids' = uuids + 1
    /\ sheets' = Append(sheets, [id |-> Uuid(uuids'),
                                 name |-> "Roadmap " \o ToString(Len(sheets) + 1),
                                 nodes |-> INITIAL_NODES])
    /\ StoreSize(sheets') <= MaxStoreSize
    /\ activeSheetId' = Uuid(uuids')
    /\ collapsedNodeIds' = {}
    /\ UNCHANGED outside

\* lines 74-79
switchSheet(id) ==
    /\ IF \E i \in 1..Len(sheets) : sheets[i].id = id
       THEN activeSheetId' = id /\ collapsedNodeIds' = {}
       ELSE UNCHANGED <<activeSheetId, collapsedNodeIds>>
    /\ UNCHANGED <<sheets, uuids, outside>>

\* lines 81-83
renameSheet(id, name) ==
    /\ sheets' = [i \in 1..Len(sheets) |->
                    IF sheets[i].id = id THEN With(sheets[i], "name", name) ELSE sheets[i]]
    /\ UNCHANGED <<activeSheetId, collapsedNodeIds, uuids, outside>>

\* line 91: sheets.filter(s => s.id !== id)
SheetsExcept(id) == SelectSeq(sheets, LAMBDA s : s.id # id)

\* lines 85-99; newSheets[0].id throws a TypeError when newSheets is empty,
\* after setSheets(newSheets) has been called
deleteSheet(id) ==
    /\ IF Len(sheets) <= 1
       THEN UNCHANGED <<sheets, activeSheetId, collapsedNodeIds>>
       ELSE /\ sheets' = SheetsExcept(id)
            /\ IF /\ \/ activeSheetId = id
                     \/ ~\E i \in 1..Len(sheets') : sheets'[i].id = activeSheetId
                  /\ Len(sheets') > 0
               THEN activeSheetId' = sheets'[1].id /\ collapsedNodeIds' = {}
               ELSE UNCHANGED <<activeSheetId, collapsedNodeIds>>
    /\ UNCHANGED <<uuids, outside>>

\* lines 106-122, with data = {}; parentId "" stands for null
addNode(parentId) ==
    /\ uuids < MaxUuids
    /\ uuids' = uuids + 1
    /\ sheets' = updateActiveSheetNodes(
                    Append(contextNodes,
                           [id |-> Uuid(uuids'), status |-> "active",
                            parentIds |-> IF parentId # "" THEN <<parentId>> ELSE <<>>]))
    /\ StoreSize(sheets') <= MaxStoreSize
    /\ collapsedNodeIds' = collapsedNodeIds \ {parentId}
    /\ UNCHANGED <<activeSheetId, outside>>

\* lines 124-126, with data = {status}
updateNode(id, status) ==
    /\ sheets' = updateActiveSheetNodes(
                    Map(contextNodes,
                        LAMBDA n : IF n.id = id THEN With(n, "status", status) ELSE n))
    /\ UNCHANGED <<activeSheetId, collapsedNodeIds, uuids, outside>>

\* lines 130-134: filtered, cleaned
cleaned(id) ==
    Map(SelectSeq(contextNodes, LAMBDA n : n.id # id),
        LAMBDA n : With(n, "parentIds", SelectSeq(n.parentIds, LAMBDA pid : pid # id)))

\* lines 128-137
deleteNode(id) ==
    /\ IF id = "root"
       THEN UNCHANGED <<sheets, collapsedNodeIds>>
       ELSE /\ sheets' = updateActiveSheetNodes(cleaned(id))
            /\ collapsedNodeIds' = collapsedNodeIds \ {id}
    /\ UNCHANGED <<activeSheetId, uuids, outside>>

\* lines 139-143
resetWorkflow ==
    /\ sheets' = updateActiveSheetNodes(INITIAL_NODES)
    /\ StoreSize(sheets') <= MaxStoreSize
    /\ collapsedNodeIds' = {}
    /\ UNCHANGED <<activeSheetId, uuids, outside>>

\* lines 145-149
toggleNodeCollapse(id) ==
    /\ collapsedNodeIds' = IF id \in collapsedNodeIds THEN collapsedNodeIds \ {id}
                           ELSE collapsedNodeIds \cup {id}
    /\ UNCHANGED <<sheets, activeSheetId, uuids, outside>>

\* lines 160-177: which branch the parsed text takes: "throw" (JSON.parse, or
\* the `in` operator applied to a number), "invalid", "sheets" or "nodes"
Format(text) ==
    IF ~text.valid THEN "throw"
    ELSE IF ~text.array THEN "invalid"
    ELSE IF Len(text.items) = 0 THEN "invalid"
    ELSE IF ~text.items[1].object THEN "throw"
    ELSE IF Has(text.items[1].fields, "nodes") /\ Has(text.items[1].fields, "name")
         THEN "sheets"
    ELSE IF Has(text.items[1].fields, "id") THEN "nodes"
    ELSE "invalid"

\* lines 164-173: importedSheets and the number of uuidv4() values used so far
importedSheets(text, u) ==
    IF Format(text) = "sheets" THEN <<Map(text.items, Spread), u>>
    ELSE <<<<[id |-> Uuid(u + 1), name |-> "Imported Roadmap",
              nodes |-> Map(text.items, Spread)]>>, u + 1>>

\* lines 181-184
isDefaultSheetUnmodified ==
    /\ Len(sheets) = 1
    /\ sheets[1].id = DEFAULT_SHEET_ID
    /\ Has(sheets[1], "nodes")
    /\ sheets[1].nodes = INITIAL_NODES

\* lines 189 and 210-213: {...s, id: s.id || uuidv4()}; st = <<sheets so far, uuids>>
Prepared(s, st) ==
    IF Has(s, "id") THEN <<Append(st[1], s), st[2]>>
    ELSE <<Append(st[1], With(s, "id", Uuid(st[2] + 1))), st[2] + 1>>

\* line 189: importedSheets.map(...), from element i on
RECURSIVE preparedSheets(_, _, _)
preparedSheets(imps, i, st) ==
    IF i > Len(imps) THEN st
    ELSE preparedSheets(imps, i + 1, TheOne({Prepared(imps[i], x) : x \in {st}}))

\* line 200: newSheets.findIndex(s => s.name === imported.name), 0 for -1
existingIndex(newSheets, imported) ==
    IF \E k \in 1..Len(newSheets) : SameName(newSheets[k], imported)
    THEN CHOOSE k \in 1..Len(newSheets) :
            /\ SameName(newSheets[k], imported)
            /\ \A j \in 1..(k - 1) : ~SameName(newSheets[j], imported)
    ELSE 0

\* lines 200-214: one element of importedSheets.forEach; st = <<newSheets, uuids>>
MergeOne(imported, st) ==
    LET k == existingIndex(st[1], imported) IN
    IF k # 0
    THEN <<[st[1] EXCEPT ![k] = IF Has(imported, "nodes")
                                THEN With(st[1][k], "nodes", imported.nodes)
                                ELSE Without(st[1][k], "nodes")],
           st[2]>>
    ELSE Prepared(imported, st)

\* lines 196-217: the updater of the merge strategy, from element i on
RECURSIVE MergeFrom(_, _, _)
MergeFrom(imps, i, st) ==
    IF i > Len(imps) THEN st
    ELSE MergeFrom(imps, i + 1, TheOne({MergeOne(imps[i], x) : x \in {st}}))

\* lines 158-224
importWorkflow(text) ==
    /\ IF Format(text) \in {"throw", "invalid"}
       THEN UNCHANGED <<sheets, activeSheetId, collapsedNodeIds, uuids>>
       ELSE LET imp == importedSheets(text, uuids) IN
            IF isDefaultSheetUnmodified
            THEN \E st \in {preparedSheets(imp[1], 1, <<<<>>, imp[2]>>)} :
                    /\ st[2] <= MaxUuids
                    /\ StoreSize(st[1]) <= MaxStoreSize
                    /\ sheets' = st[1]
                    /\ uuids' = st[2]
                    /\ activeSheetId' = st[1][1].id
                    /\ collapsedNodeIds' = {}
            ELSE \E st \in {MergeFrom(imp[1], 1, <<sheets, imp[2]>>)} :
                    /\ st[2] <= MaxUuids
                    /\ StoreSize(st[1]) <= MaxStoreSize
                    /\ sheets' = st[1]
                    /\ uuids' = st[2]
                    /\ UNCHANGED <<activeSheetId, collapsedNodeIds>>
    /\ UNCHANGED outside

\* the files offered to the import and the contents found in localStorage
ImportedNode == [id |-> "a", status |-> "active", parentIds |-> <<"root">>]

SheetObject(id, name, ns) == Obj([id |-> id, name |-> name, nodes |-> ns])

ImportTexts ==
    { NotJson, NotArray, Text(<<>>), Text(<<Num>>), Text(<<Obj([title |-> "x"])>>),
      Text(<<Obj(INITIAL_NODES[1]), Obj(ImportedNode)>>),
      Text(<<SheetObject(DEFAULT_SHEET_ID, "Plan A", INITIAL_NODES \o <<ImportedNode>>)>>),
      Text(<<Obj([name |-> "Main Roadmap", nodes |-> INITIAL_NODES \o <<ImportedNode>>])>>),
      Text(<<SheetObject("s1", "Plan B", INITIAL_NODES), Num>>),
      Text(<<SheetObject("s1", "Plan B", INITIAL_NODES),
             SheetObject("s1", "Plan C", INITIAL_NODES)>>) }

\* nothing saved is read as null, which takes the same path as text that fails to parse
SavedTexts ==
    { NotJson, Text(<<>>),
      Text(<<SheetObject("s1", "Plan B", INITIAL_NODES \o <<ImportedNode>>)>>) }

\* the arguments the components pass
SheetIdChoices == {sheets[i].id : i \in 1..Len(sheets)} \cup {"no-such-sheet"}
SheetNames == {"Plan A"}
NodeIdChoices == {contextNodes[i].id : i \in 1..Len(contextNodes)}
StoreStatuses == {"abandoned"}

StoreInit ==
    /\ \E saved \in SavedTexts :
          /\ sheets = LoadSheets(saved)
          /\ activeSheetId = LoadActive(saved)
    /\ uuids = 0
    /\ collapsedNodeIds = {}
    /\ nodes = <<>>
    /\ orientation = "vertical"
    /\ pc = "store"
    /\ sortedNodes = <<>>
    /\ ranks = EmptyMap
    /\ changed = TRUE
    /\ iterations = 0
    /\ layoutNodes = <<>>
    /\ cursor = 1
    /\ nodeMap = <<>>
    /\ laneAllocation = EmptyMap
    /\ result = NoResult
    /\ window = NotRead
    /\ previous = NoCall
    /\ sheetNodes = <<>>
    /\ paths = <<>>

StoreNext ==
    \/ createSheet
    \/ \E id \in SheetIdChoices : switchSheet(id)
    \/ \E id \in SheetIdChoices, name \in SheetNames : renameSheet(id, name)
    \/ \E id \in SheetIdChoices : deleteSheet(id)
    \/ \E parentId \in NodeIdChoices \cup {""} : addNode(parentId)
    \/ \E id \in NodeIdChoices, status \in StoreStatuses : updateNode(id, status)
    \/ \E id \in NodeIdChoices \cup {"root"} : deleteNode(id)
    \/ resetWorkflow
    \/ \E id \in NodeIdChoices : toggleNodeCollapse(id)
    \/ \E text \in ImportTexts : importWorkflow(text)

StoreSpec == StoreInit /\ [][StoreNext]_vars

\* the store holds what its operations can produce
StoreTypeOK ==
    /\ uuids \in 0..MaxUuids
    /\ \A i \in 1..Len(sheets) : Has(sheets[i], "id")

----------------------------------------------------------------------------
(* The sheet list of the store *)

\* C26: after any sequence of store operations the sheet list contains at
\* least one sheet.
C26_AtLeastOneSheet == Len(sheets) >= 1

\* no two sheets have the same id
DistinctSheetIds == \A i, j \in 1..Len(sheets) : sheets[i].id = sheets[j].id => i = j

\* the sheets whose `nodes` a step has changed
ChangedSheets == {i \in 1..Len(sheets) : i > Len(sheets') \/ sheets'[i] # sheets[i]}

\* C27: after any sequence of store operations, importWorkflow in its merge
\* branch included, all sheets have pairwise distinct ids, so a node operation
\* changes at most the one sheet that is active.
C27_DistinctSheetIds ==
    /\ [](DistinctSheetIds)
    /\ [][(\E id \in NodeIdChoices, status \in StoreStatuses : updateNode(id, status))
          => Cardinality(ChangedSheets) <= 1]_vars

\* C28: after any sequence of createSheet, switchSheet, deleteSheet and
\* importWorkflow, activeSheetId is the id of a sheet that exists; switchSheet
\* to an unknown id changes nothing; deleting the active sheet makes the first
\* remaining sheet active.
C28_ActiveSheetExists ==
    /\ [](\E i \in 1..Len(sheets) : sheets[i].id = activeSheetId)
    /\ [][switchSheet("no-such-sheet") => UNCHANGED vars]_vars
    /\ [][(Len(sheets) > 1 /\ deleteSheet(activeSheetId))
          => (Len(sheets') > 0 /\ activeSheetId' = sheets'[1].id)]_vars

----------------------------------------------------------------------------
(* Deleting a node *)

\* the list `ids` without the entries equal to id, in the same order
RECURSIVE Minus(_, _)
Minus(ids, id) ==
    IF ids = <<>> THEN <<>>
    ELSE IF Head(ids) = id THEN Minus(Tail(ids), id)
    ELSE <<Head(ids)>> \o Minus(Tail(ids), id)

\* the positions of the nodes of the context whose id is not id
Kept(id) == {k \in 1..Len(contextNodes) : contextNodes[k].id # id}

\* C29: after deleteNode(id) with id other than 'root' the active sheet has no
\* node with that id, no node lists it as a parent, it is not in
\* collapsedNodeIds, and the other nodes, in their order, and their other
\* parent ids are as before; deleteNode('root') changes nothing.
C29_DeleteNode ==
    [][\A id \in NodeIdChoices \cup {"root"} :
          deleteNode(id) =>
             IF id = "root" THEN UNCHANGED vars
             ELSE /\ \A k \in 1..Len(contextNodes') :
                        /\ contextNodes'[k].id # id
                        /\ id \notin Range(contextNodes'[k].parentIds)
                  /\ id \notin collapsedNodeIds'
                  /\ collapsedNodeIds' = collapsedNodeIds \ {id}
                  /\ Len(contextNodes') = Cardinality(Kept(id))
                  /\ \A k \in Kept(id) :
                        LET j == Cardinality({m \in Kept(id) : m <= k}) IN
                        /\ contextNodes'[j].id = contextNodes[k].id
                        /\ contextNodes'[j].status = contextNodes[k].status
                        /\ contextNodes'[j].parentIds = Minus(contextNodes[k].parentIds, id)
    ]_vars

----------------------------------------------------------------------------
(* Rejected imports *)

\* the element is a sheet: an object with a name and nodes (types.ts, Sheet)
IsSheet(el) == el.object /\ Has(el.fields, "name") /\ Has(el.fields, "nodes")

\* the element is a node: an object with an id and parentIds (types.ts, WorkflowNode)
IsNode(el) == el.object /\ Has(el.fields, "id") /\ Has(el.fields, "parentIds")

\* the text parses to a non-empty array of sheets or to a non-empty array of nodes
WellFormed(text) ==
    /\ text.valid /\ text.array /\ Len(text.items) > 0
    /\ \/ \A i \in 1..Len(text.items) : IsSheet(text.items[i])
       \/ \A i \in 1..Len(text.items) : IsNode(text.items[i])

\* C30: importWorkflow called with text that is not valid JSON, or whose parsed
\* value is not a non-empty array of sheets or of nodes, leaves sheets,
\* activeSheetId and collapsedNodeIds unchanged.
C30_RejectedImport ==
    [][\A text \in ImportTexts :
          (importWorkflow(text) /\ ~WellFormed(text))
              => UNCHANGED <<sheets, activeSheetId, collapsedNodeIds>>]_vars

====
